---------------------------- MODULE Spec2Model ----------------------------
(***************************************************************************)
(* A model of data_generation.py: the Motion Stepper (simulate_motion),    *)
(* the Frame Rasterizer (draw_frame) and the Sequence Generator            *)
(* (generate_sequence).                                                     *)
(*                                                                         *)
(* Numbers.  The program computes in floating point; the model computes in *)
(* fixed point.  A length l is the integer l * U with U = 60 * 60, a       *)
(* velocity v (length per second) is the integer v * 60, so that with the  *)
(* time step 1/60 a velocity V moves the body by exactly V position units  *)
(* and a gravity g changes the velocity by exactly g velocity units.       *)
(* Directions are drawn from a table of angles whose cosine and sine are   *)
(* multiples of 1/5 (the cosine of pi/2, which floating point makes 6e-17,  *)
(* is 0 here).                                                             *)
(*                                                                         *)
(* The physics engine.  space.step(dt) is modelled by what the engine      *)
(* (pymunk / Chipmunk2D) does in one step, in its order: integrate the     *)
(* position with the old velocity and the bias velocity, find the contacts *)
(* at the new position, record each contact's bounce from the velocity     *)
(* before gravity, integrate the velocity, then solve the contacts (the    *)
(* iterative solver's fixed point is taken).                               *)
(***************************************************************************)
EXTENDS Integers, Sequences, FiniteSets

(***************************************************************************)
(* Program constants.                                                      *)
(***************************************************************************)
IMAGE_HEIGHT == 16
IMAGE_WIDTH == 16
SHAPE_SIDE_LENGTH == 0
\* the denominator of the time step 1.0 / 60 that generate_sequence passes
StepsPerSecond == 60
\* the radius of each boundary segment
SegmentRadius == 1
\* the engine's defaults: collision_slop = 0.1, and a collision_bias that
\* leaves 1/10 of the overlap to be corrected per step of 1/60 s
SlopTenths == 1
BiasDivisor == 10

\* position units per length unit
U == StepsPerSecond * StepsPerSecond
\* velocity units per (length unit per second)
VU == StepsPerSecond

TimeStep == [num |-> 1, den |-> StepsPerSecond]

(***************************************************************************)
(* Bounds of the model.                                                    *)
(***************************************************************************)
MaxSequenceLength == 2
MaxFrameRate == 4

\* initial_speed, in length units per second
Speeds == {0, 10, 60, 192}
\* initial_direction: an index into DirectionTable
Directions == 0 .. 4
\* <<5 cos(d), 5 sin(d)>> for d = 0, pi/2, pi, 3 pi/2, atan(3/4)
DirectionTable == <<
    <<5, 0>>, <<0, 5>>, <<-5, 0>>, <<0, -5>>, <<4, 3>> >>
\* initial_position, in hundredths of a length unit
Positions == {<<800, 800>>, <<1590, 800>>, <<800, 12>>, <<1200, 190>>}
\* gravity, in length units per second squared
Gravities == {0, 10}
\* coefficient_of_restitution as <<numerator, denominator>>
Restitutions == {<<0, 1>>, <<1, 2>>, <<1, 1>>}

Tenths(t) == (t * U) \div 10
Hundredths(t) == (t * U) \div 100

\* the arguments of generate_sequence (with speed 0 the direction does not
\* matter, and only direction 0 is taken)
Args ==
    {a \in [sequence_length : 0 .. MaxSequenceLength,
            initial_speed : Speeds,
            initial_direction : Directions,
            initial_position : {<<Hundredths(p[1]), Hundredths(p[2])>> :
                                    p \in Positions},
            gravity : Gravities,
            coefficient_of_restitution : Restitutions,
            frame_rate : 0 .. MaxFrameRate] :
        a.initial_speed = 0 => a.initial_direction = 0}

\* the arguments of a call made between a call and its repetition
OtherArgs ==
    {[sequence_length |-> 1, initial_speed |-> 60, initial_direction |-> 0,
      initial_position |-> <<Hundredths(1590), Hundredths(800)>>,
      gravity |-> 10,
      coefficient_of_restitution |-> <<1, 2>>, frame_rate |-> 2]}

VARIABLES
    args,       \* the arguments of the running call of generate_sequence
    pc,         \* the place of the running call
    frame,      \* generate_sequence's loop variable
    sub,        \* the inner loop's variable (named _ in the source)
    images,     \* generate_sequence's local
    positions,  \* generate_sequence's local
    position,   \* generate_sequence's local
    velocity,   \* generate_sequence's local
    space,      \* the scene the latest simulate_motion call built and stepped
    lastCall,   \* the latest simulate_motion call: its inputs and outputs
    nCalls,     \* the number of simulate_motion calls of the running call
    free,       \* no call of the running call has touched a wall so far
    landed,     \* a call of the running call touched the floor while falling
    result,     \* what the latest completed call returned
    callNo,     \* 1: a first call, 2: another call in between, 3: the
                \* repetition right after the first call, 4: after another
    saved       \* the first call's arguments and result

vars == <<args, pc, frame, sub, images, positions, position, velocity, space,
          lastCall, nCalls, free, landed, result, callNo, saved>>

Abs(a) == IF a >= 0 THEN a ELSE -a
Max(a, b) == IF a >= b THEN a ELSE b
\* C's (int) conversion of a double: truncation toward zero
Trunc(a, d) == IF a >= 0 THEN a \div d ELSE -((-a) \div d)
\* the pixel a coordinate lies in: rounding toward minus infinity
FloorDiv(a, d) == a \div d


(***************************************************************************)
(* simulate_motion: the scene.                                             *)
(***************************************************************************)
\* a slip: gravity along the positive vertical axis
GravityUp(gravity) == <<0, gravity>>

\* space.gravity = (0, -gravity)
Gravity(gravity) == <<0, -gravity>>

\* a slip: the body of the previous call's scene is used again, and with it
\* the bias velocity the engine left in it
BodyReused(initial_pos, vel) ==
    [p |-> initial_pos,
     v |-> vel,
     v_bias |-> space.body.v_bias,
     half |-> ((SHAPE_SIDE_LENGTH + 1) * U) \div 2]

\* the body and its box shape: position, velocity, the half side of the
\* box (SHAPE_SIDE_LENGTH + 1) / 2, and the engine's bias velocity, which a
\* new Body starts at zero
Body(initial_pos, vel) ==
    [p |-> initial_pos,
     v |-> vel,
     v_bias |-> <<0, 0>>,
     half |-> ((SHAPE_SIDE_LENGTH + 1) * U) \div 2]

\* a slip: the shape's elasticity is left at the engine's default, 0
ShapeElasticityDefault(restitution) == <<0, 1>>

\* shape.elasticity = restitution
ShapeElasticity(restitution) == restitution

\* line.elasticity = restitution, for each of the four segments
LineElasticity(restitution) == restitution

\* The four static segments, under the names the source's comments give
\* them.  axis: the coordinate the segment's line fixes (1: x, 2: y); at:
\* its value; lo, hi: the segment's extent along the other coordinate.
\* Gravity pulls toward y = 0, the segment the source calls "Top".
StaticLines ==
    {[name |-> "Left", axis |-> 1, at |-> 0,
      lo |-> 0, hi |-> IMAGE_HEIGHT * U],
     [name |-> "Bottom", axis |-> 2, at |-> IMAGE_HEIGHT * U,
      lo |-> 0, hi |-> IMAGE_WIDTH * U],
     [name |-> "Right", axis |-> 1, at |-> IMAGE_WIDTH * U,
      lo |-> 0, hi |-> IMAGE_HEIGHT * U],
     [name |-> "Top", axis |-> 2, at |-> 0,
      lo |-> 0, hi |-> IMAGE_WIDTH * U]}

\* the segment gravity pulls the body toward
Floor == "Top"

\* pymunk.Space() with its gravity, the body and shape, and the four lines
Space(initial_pos, vel, gravity, restitution) ==
    [gravity |-> Gravity(gravity),
     body |-> Body(initial_pos, vel),
     shape_elasticity |-> ShapeElasticity(restitution),
     line_elasticity |-> LineElasticity(restitution),
     contacts |-> {}]

(***************************************************************************)
(* simulate_motion: space.step(time_step).                                 *)
(***************************************************************************)
\* the distance, in position units, a velocity covers in dt
Displacement(v, dt) == (v * (U \div VU) * dt.num) \div dt.den

\* the change of velocity, in velocity units, an acceleration makes in dt
VelocityChange(a, dt) == (a * VU * dt.num) \div dt.den

\* Step 1: the position is integrated with the velocity the step starts
\* with plus the bias velocity, and the bias velocity is cleared.
UpdatePosition(body, dt) ==
    [body EXCEPT
        !.p = <<body.p[1] + Displacement(body.v[1] + body.v_bias[1], dt),
                body.p[2] + Displacement(body.v[2] + body.v_bias[2], dt)>>,
        !.v_bias = <<0, 0>>]

\* the distance between the box's centre and a segment's line at which the
\* box and the segment (with its radius) touch
Reach(body) == body.half + SegmentRadius * U

\* Step 2: the box overlaps the segment.  The segment's round end caps are
\* taken as square; they matter only to a body already outside the box.
Touches(body, line) ==
    /\ Abs(body.p[line.axis] - line.at) <= Reach(body)
    /\ body.p[3 - line.axis] + body.half >= line.lo - SegmentRadius * U
    /\ body.p[3 - line.axis] - body.half <= line.hi + SegmentRadius * U

\* The contact normal, from the segment to the box, as a sign along the
\* segment's axis: the direction of least penetration, which is the side of
\* the segment's line the box's centre is on (a centre exactly on the line
\* is taken to be on the positive side; no contact of the model's runs
\* has it there).
Normal(body, line) == IF body.p[line.axis] >= line.at THEN 1 ELSE -1

\* the elasticity of a collision is the product of the two shapes'
ArbiterElasticity(a, b) == <<a[1] * b[1], a[2] * b[2]>>

\* the contacts of the body, each with the bounce the engine records
\* before it integrates the velocity: the normal relative velocity times
\* the collision's elasticity
Contacts(sp, body) ==
    LET e == ArbiterElasticity(sp.shape_elasticity, sp.line_elasticity)
    IN  {[line |-> l.name,
          axis |-> l.axis,
          n |-> Normal(body, l),
          depth |-> Reach(body) - Abs(body.p[l.axis] - l.at),
          bounce |-> (Normal(body, l) * body.v[l.axis] * e[1]) \div e[2]] :
            l \in {m \in StaticLines : Touches(body, m)}}

\* Step 3: the velocity is integrated with gravity (damping is 1)
UpdateVelocity(v, gravity, dt) ==
    <<v[1] + VelocityChange(gravity[1], dt),
      v[2] + VelocityChange(gravity[2], dt)>>

\* Step 4: the contacts are solved: along each contact normal the velocity
\* is raised to minus the bounce, by an impulse that only pushes apart.
\* There is no friction.  The solver's ten iterations over a contact's two
\* points are taken at their fixed point.
Solved(v, cons, a) ==
    IF \E c \in cons : c.axis = a
    THEN LET c == CHOOSE c \in cons : c.axis = a
         IN  c.n * Max(c.n * v[a], -c.bounce)
    ELSE v[a]

\* the bias velocity that would push the overlap beyond the collision slop
\* out of the segment, a tenth of it per step of 1/60 s
Bias(cons, a) ==
    IF \E c \in cons : c.axis = a
    THEN LET c == CHOOSE c \in cons : c.axis = a
         IN  c.n * (Max(0, c.depth - Tenths(SlopTenths)) \div BiasDivisor)
    ELSE 0

SpaceStep(sp, dt) ==
    LET b1 == UpdatePosition(sp.body, dt)
        cons == Contacts(sp, b1)
        v1 == UpdateVelocity(b1.v, sp.gravity, dt)
    IN  [sp EXCEPT
            !.body = [b1 EXCEPT
                        !.v = <<Solved(v1, cons, 1), Solved(v1, cons, 2)>>,
                        !.v_bias = <<Bias(cons, 1), Bias(cons, 2)>>],
            !.contacts = {c.line : c \in cons}]

\* simulate_motion: a new space, one step, and the body's position and
\* velocity read back
simulate_motion(initial_pos, vel, gravity, restitution, time_step) ==
    LET sp0 == Space(initial_pos, vel, gravity, restitution)
        sp1 == SpaceStep(sp0, time_step)
    IN  [new_pos |-> sp1.body.p,
         new_vel |-> sp1.body.v,
         body0 |-> sp0.body,
         space |-> sp1]

(***************************************************************************)
(* draw_frame.                                                             *)
(***************************************************************************)
\* Image.new("1", (IMAGE_WIDTH, IMAGE_HEIGHT), "white"): a frame is its
\* size, its mode and the set of its black pixels
NewImage == [size |-> <<IMAGE_WIDTH, IMAGE_HEIGHT>>, mode |-> "1", black |-> {}]

\* draw.rectangle([x0, y0, x1, y1], fill="black"): the coordinates are
\* converted to int (truncated toward zero) and the pixels of the rectangle,
\* both corners included, that lie in the image are filled
Rectangle(image, x0, y0, x1, y1) ==
    [image EXCEPT !.black = @ \cup
        {px \in (Trunc(x0, U) .. Trunc(x1, U)) \X
                (Trunc(y0, U) .. Trunc(y1, U)) :
            /\ 0 <= px[1] /\ px[1] < image.size[1]
            /\ 0 <= px[2] /\ px[2] < image.size[2]}]

draw_frame(pos) ==
    Rectangle(NewImage, pos[1], pos[2],
              pos[1] + SHAPE_SIDE_LENGTH * U, pos[2] + SHAPE_SIDE_LENGTH * U)

(***************************************************************************)
(* generate_sequence.                                                      *)
(***************************************************************************)
\* a slip: the direction's unit vector, not scaled by the speed
InitialVelocityUnit(initial_speed, initial_direction) ==
    <<(VU * DirectionTable[initial_direction + 1][1]) \div 5,
      (-VU * DirectionTable[initial_direction + 1][2]) \div 5>>

\* (initial_speed * cos(initial_direction), -initial_speed * sin(...))
InitialVelocity(initial_speed, initial_direction) ==
    <<(initial_speed * VU * DirectionTable[initial_direction + 1][1]) \div 5,
      (-initial_speed * VU * DirectionTable[initial_direction + 1][2]) \div 5>>

\* a slip: one frame too many
MoreFramesInclusive(f, sequence_length) == f <= sequence_length

\* for frame in range(sequence_length)
MoreFrames(f, sequence_length) == f < sequence_length

\* a slip: one sub-step too many
MoreSubStepsInclusive(s, frame_rate) == s <= frame_rate

\* for _ in range(frame_rate)
MoreSubSteps(s, frame_rate) == s < frame_rate

\* a slip: the vertical coordinate is not flipped
AdjustedPositionUnflipped(pos) == pos

\* (position[0], IMAGE_HEIGHT - position[1] - SHAPE_SIDE_LENGTH)
AdjustedPosition(pos) ==
    <<pos[1], IMAGE_HEIGHT * U - pos[2] - SHAPE_SIDE_LENGTH * U>>

\* where the call goes at the head of the frame loop, and of the inner loop
AtInnerLoop(s) ==
    IF MoreSubSteps(s, args.frame_rate) THEN "step" ELSE "draw"
AtFrameLoop(f) ==
    IF MoreFrames(f, args.sequence_length) THEN AtInnerLoop(0) ELSE "return"

\* before the first call of simulate_motion there is no scene: the
\* variables hold a body at rest at the origin, in an empty space
NoBody ==
    [p |-> <<0, 0>>, v |-> <<0, 0>>, v_bias |-> <<0, 0>>,
     half |-> ((SHAPE_SIDE_LENGTH + 1) * U) \div 2]
NoSpace ==
    [gravity |-> <<0, 0>>, body |-> NoBody, shape_elasticity |-> <<0, 1>>,
     line_elasticity |-> <<0, 1>>, contacts |-> {}]
NoCall ==
    [initial_pos |-> <<0, 0>>, velocity |-> <<0, 0>>, time_step |-> TimeStep,
     new_pos |-> <<0, 0>>, new_vel |-> <<0, 0>>, body0 |-> NoBody,
     touched |-> {}]
NoResult == <<<< >>, << >>>>

Init ==
    /\ args \in Args
    /\ pc = "begin"
    /\ frame = 0
    /\ sub = 0
    /\ images = << >>
    /\ positions = << >>
    /\ position = <<0, 0>>
    /\ velocity = <<0, 0>>
    /\ space = NoSpace
    /\ lastCall = NoCall
    /\ nCalls = 0
    /\ free = TRUE
    /\ landed = FALSE
    /\ result = NoResult
    /\ callNo = 1
    /\ saved = [args |-> args, result |-> NoResult]

\* images = [], position, velocity, positions = [], and the loops' heads
Begin ==
    /\ pc = "begin"
    /\ images' = << >>
    /\ position' = args.initial_position
    /\ velocity' = InitialVelocity(args.initial_speed, args.initial_direction)
    /\ positions' = << >>
    /\ frame' = 0
    /\ sub' = 0
    /\ nCalls' = 0
    /\ free' = TRUE
    /\ landed' = FALSE
    /\ lastCall' = NoCall
    /\ pc' = AtFrameLoop(0)
    /\ UNCHANGED <<args, space, result, callNo, saved>>

\* one pass of the inner loop: position, velocity = simulate_motion(...)
SubStep ==
    /\ pc = "step"
    /\ LET r == simulate_motion(position, velocity, args.gravity,
                                args.coefficient_of_restitution, TimeStep)
       IN  /\ position' = r.new_pos
           /\ velocity' = r.new_vel
           /\ space' = r.space
           /\ lastCall' = [initial_pos |-> position, velocity |-> velocity,
                           time_step |-> TimeStep, new_pos |-> r.new_pos,
                           new_vel |-> r.new_vel, body0 |-> r.body0,
                           touched |-> r.space.contacts]
           /\ free' = (free /\ r.space.contacts = {})
           /\ landed' = (\/ landed
                         \/ Floor \in r.space.contacts /\ velocity[2] <= 0)
    /\ nCalls' = nCalls + 1
    /\ sub' = sub + 1
    /\ pc' = AtInnerLoop(sub + 1)
    /\ UNCHANGED <<args, frame, images, positions, result, callNo, saved>>

\* the rest of the frame loop's body: the adjusted position, the frame, the
\* two appends; then the next frame's inner loop starts over
EmitFrame ==
    /\ pc = "draw"
    /\ images' = Append(images, draw_frame(AdjustedPosition(position)))
    /\ positions' = Append(positions, position)
    /\ frame' = frame + 1
    /\ sub' = 0
    /\ pc' = AtFrameLoop(frame + 1)
    /\ UNCHANGED <<args, position, velocity, space, lastCall, nCalls, free,
                   landed, result, callNo, saved>>

\* return images, positions
Return ==
    /\ pc = "return"
    /\ result' = <<images, positions>>
    /\ pc' = "returned"
    /\ UNCHANGED <<args, frame, sub, images, positions, position, velocity,
                   space, lastCall, nCalls, free, landed, callNo, saved>>

\* the caller calls generate_sequence with other arguments
CallOther ==
    /\ pc = "returned"
    /\ callNo = 1
    /\ saved' = [args |-> args, result |-> result]
    /\ args' \in OtherArgs
    /\ callNo' = 2
    /\ pc' = "begin"
    /\ UNCHANGED <<frame, sub, images, positions, position, velocity, space,
                   lastCall, nCalls, free, landed, result>>

\* the caller repeats its first call
CallAgain ==
    /\ pc = "returned"
    /\ callNo \in {1, 2}
    /\ saved' = IF callNo = 1 THEN [args |-> args, result |-> result] ELSE saved
    /\ args' = IF callNo = 1 THEN args ELSE saved.args
    /\ callNo' = IF callNo = 1 THEN 3 ELSE 4
    /\ pc' = "begin"
    /\ UNCHANGED <<frame, sub, images, positions, position, velocity, space,
                   lastCall, nCalls, free, landed, result>>

Next ==
    \/ Begin
    \/ SubStep
    \/ EmitFrame
    \/ Return
    \/ CallOther
    \/ CallAgain

Spec == Init /\ [][Next]_vars

(***************************************************************************)
(* draw_frame on its own: a caller draws a frame at any position.          *)
(***************************************************************************)
\* positions from -2 to 18 in both coordinates, in halves of a length unit
DrawPositions ==
    {<<Tenths(5 * i), Tenths(5 * j)>> : i \in -4 .. 36, j \in -4 .. 36}

InitDraw ==
    /\ args \in {a \in OtherArgs : TRUE}
    /\ pc = "draw_frame"
    /\ frame = 0
    /\ sub = 0
    /\ images = << >>
    /\ positions = << >>
    /\ position \in DrawPositions
    /\ velocity = <<0, 0>>
    /\ space = NoSpace
    /\ lastCall = NoCall
    /\ nCalls = 0
    /\ free = TRUE
    /\ landed = FALSE
    /\ result = NoResult
    /\ callNo = 1
    /\ saved = [args |-> args, result |-> NoResult]

DrawOnly ==
    /\ pc = "draw_frame"
    /\ images' = <<draw_frame(position)>>
    /\ pc' = "drawn"
    /\ UNCHANGED <<args, frame, sub, positions, position, velocity, space,
                   lastCall, nCalls, free, landed, result, callNo, saved>>

NextDraw == DrawOnly

SpecDraw == InitDraw /\ [][NextDraw]_vars

(***************************************************************************)
(* The properties.                                                         *)
(***************************************************************************)
\* the running call has passed its first lines: its locals are its own
Running == pc \in {"step", "draw", "return", "returned"}

\* the velocity the running call starts with
V0 == InitialVelocity(args.initial_speed, args.initial_direction)

\* the pixels of the image in columns i0 .. i1 and rows j0 .. j1
Pixels(i0, j0, i1, j1) ==
    {i \in 0 .. IMAGE_WIDTH - 1 : i0 <= i /\ i <= i1} \X
    {j \in 0 .. IMAGE_HEIGHT - 1 : j0 <= j /\ j <= j1}

\* the side of the square, in position units
Side == SHAPE_SIDE_LENGTH * U

\* the frame of physics position pos: x unchanged, y flipped
FlippedFrame(pos) ==
    [size |-> <<IMAGE_WIDTH, IMAGE_HEIGHT>>,
     mode |-> "1",
     black |-> Pixels(Trunc(pos[1], U),
                      Trunc(IMAGE_HEIGHT * U - pos[2] - Side, U),
                      Trunc(pos[1] + Side, U),
                      Trunc(IMAGE_HEIGHT * U - pos[2] - Side + Side, U))]

\* a position no closer to any wall than the distance at which the box
\* touches the wall's segment
Central(p) ==
    /\ p[1] > Reach(NoBody) /\ p[1] < IMAGE_WIDTH * U - Reach(NoBody)
    /\ p[2] > Reach(NoBody) /\ p[2] < IMAGE_HEIGHT * U - Reach(NoBody)

\* C1: generate_sequence returns sequence_length frames and
\* sequence_length positions, the i-th frame drawn from the i-th position;
\* the two lists grow together, one entry per frame, and are empty for
\* sequence_length = 0.
C1_SequenceLengths ==
    /\ Running =>
        /\ Len(images) = frame
        /\ Len(positions) = frame
        /\ frame <= args.sequence_length
    /\ pc \in {"return", "returned"} => frame = args.sequence_length
    /\ pc = "returned" =>
        /\ Len(result[1]) = args.sequence_length
        /\ Len(result[2]) = args.sequence_length
        /\ \A i \in 1 .. Len(result[1]) :
            result[1][i] = draw_frame(AdjustedPosition(result[2][i]))

C1_Witness ==
    /\ pc = "returned"
    /\ args.sequence_length = 2
    /\ args.frame_rate >= 1
    /\ Len(result[1]) = 2
    /\ result[2][1] # result[2][2]
    /\ result[1][1] # result[1][2]

\* C2: the position recorded for a frame is the physics position the last
\* sub-step returned, and the frame is drawn at (x, H - y - s): x unchanged,
\* y flipped.
C2_RawPositionRecorded ==
    Running =>
        /\ \A i \in 1 .. Len(positions) : images[i] = FlippedFrame(positions[i])
        /\ (sub = 0 /\ frame >= 1) => positions[frame] = position
        /\ nCalls > 0 => position = lastCall.new_pos

C2_Witness ==
    /\ pc = "returned"
    /\ nCalls > 0
    /\ Len(positions) >= 1
    /\ positions[1] = lastCall.new_pos
    /\ images[1].black # {}
    /\ images[1].black # Pixels(Trunc(positions[1][1], U),
                                Trunc(positions[1][2], U),
                                Trunc(positions[1][1] + Side, U),
                                Trunc(positions[1][2] + Side, U))

\* the tolerance of C3: half a length unit
Epsilon == U \div 2

InBoxEps(p) ==
    /\ -Epsilon <= p[1] /\ p[1] <= IMAGE_WIDTH * U + Epsilon
    /\ -Epsilon <= p[2] /\ p[2] <= IMAGE_HEIGHT * U + Epsilon

\* C3: with restitution in [0,1], gravity >= 0 and an initial position in
\* the box, the position after every step of the stepper, and every
\* recorded position, lies in [0,W] x [0,H] up to a tolerance.
C3_PositionStaysInBox ==
    Running =>
        /\ nCalls > 0 => InBoxEps(position)
        /\ \A i \in 1 .. Len(positions) : InBoxEps(positions[i])

\* C4: a repeated call of generate_sequence returns what the first call
\* with the same arguments returned, whether or not another call was made
\* in between.
C4_Deterministic ==
    (pc = "returned" /\ callNo \in {3, 4}) =>
        /\ args = saved.args
        /\ result = saved.result

C4_Witness ==
    /\ pc = "returned"
    /\ callNo = 4
    /\ args \notin OtherArgs
    /\ Len(result[2]) = 2
    /\ result[2][1] # result[2][2]
    /\ ~free
    /\ result = saved.result

\* the concrete scenario of C5
Scenario ==
    [sequence_length |-> 1, initial_speed |-> 0, initial_direction |-> 0,
     initial_position |-> <<8 * U, 8 * U>>, gravity |-> 0,
     coefficient_of_restitution |-> <<1, 1>>, frame_rate |-> 1]

\* C5: with speed 0, gravity 0 and a central initial position nothing
\* moves: every recorded position is the initial one and every frame shows
\* the square at (x, H - y - s); the concrete scenario returns one frame
\* with the square at (8, 16 - 8 - s) and the position (8, 8).
C5_NoMotion ==
    /\ ( /\ Running
         /\ args.initial_speed = 0
         /\ args.gravity = 0
         /\ Central(args.initial_position) ) =>
            /\ position = args.initial_position
            /\ velocity = <<0, 0>>
            /\ \A i \in 1 .. Len(positions) :
                /\ positions[i] = args.initial_position
                /\ images[i] = FlippedFrame(args.initial_position)
    /\ (pc = "returned" /\ args = Scenario) =>
            result = << <<[size |-> <<16, 16>>, mode |-> "1",
                           black |-> {<<8, 16 - 8 - SHAPE_SIDE_LENGTH>>}]>>,
                        << <<8 * U, 8 * U>> >> >>

C5_Witness ==
    /\ pc = "returned"
    /\ args = Scenario
    /\ nCalls = 1
    /\ Len(result[1]) = 1

\* C6: with gravity > 0 and restitution 0, the step in which a falling body
\* touches the floor leaves it with vertical velocity 0, and the body never
\* moves upward afterwards.
C6_NoRebound ==
    ( /\ Running
      /\ args.gravity > 0
      /\ args.coefficient_of_restitution = <<0, 1>> ) =>
        /\ ( /\ nCalls > 0
             /\ Floor \in lastCall.touched
             /\ lastCall.velocity[2] <= 0 ) => lastCall.new_vel[2] = 0
        /\ landed => velocity[2] <= 0

\* the centre of the body is strictly between the two walls of a line's axis
Inside(p, l) ==
    /\ 0 < p[l.axis]
    /\ p[l.axis] < (IF l.axis = 1 THEN IMAGE_WIDTH ELSE IMAGE_HEIGHT) * U

C8_ClippedRectangle ==
    pc = "drawn" =>
        images[1] = [size |-> <<IMAGE_WIDTH, IMAGE_HEIGHT>>,
                     mode |-> "1",
                     black |-> Pixels(FloorDiv(position[1], U),
                                      FloorDiv(position[2], U),
                                      FloorDiv(position[1] + Side, U),
                                      FloorDiv(position[2] + Side, U))]

\* the state after n calls of the stepper, threaded from the initial state
RECURSIVE Iter(_)
Iter(n) ==
    IF n = 0
    THEN [pos |-> args.initial_position, vel |-> V0]
    ELSE LET s == Iter(n - 1)
             r == simulate_motion(s.pos, s.vel, args.gravity,
                                  args.coefficient_of_restitution,
                                  [num |-> 1, den |-> 60])
         IN  [pos |-> r.new_pos, vel |-> r.new_vel]

\* C9: the stepper is called frame_rate times per frame, sequence_length *
\* frame_rate times in all, each time with the time step 1/60 and a new
\* body made of the position and velocity the call before returned; the
\* k-th recorded position is the state after k * frame_rate calls.
C9_SubSteps ==
    Running =>
        /\ nCalls = frame * args.frame_rate + sub
        /\ sub <= args.frame_rate
        /\ pc = "returned" => nCalls = args.sequence_length * args.frame_rate
        /\ nCalls > 0 =>
            /\ lastCall.time_step = [num |-> 1, den |-> 60]
            /\ lastCall.body0 = [p |-> lastCall.initial_pos,
                                 v |-> lastCall.velocity,
                                 v_bias |-> <<0, 0>>,
                                 half |-> U \div 2]
        /\ LET it == Iter(nCalls)
           IN  position = it.pos /\ velocity = it.vel
        /\ pc = "returned" =>
            \A k \in 1 .. Len(positions) :
                positions[k] = Iter(k * args.frame_rate).pos

C9_Witness ==
    /\ pc = "returned"
    /\ args.sequence_length = 2
    /\ args.frame_rate = 3
    /\ nCalls = 6
    /\ positions[1] # positions[2]
    /\ positions[1] # args.initial_position
    /\ ~free

\* C10: in a call of the stepper in which the body touches no wall the
\* horizontal velocity is unchanged and the vertical velocity changes by
\* -gravity * time_step; a body that has touched no wall yet is where
\* uniform motion in x and uniformly accelerated motion in y put it, so its
\* y is at most what its initial vertical velocity allows.
C10_Gravity ==
    Running =>
        /\ (nCalls > 0 /\ lastCall.touched = {}) =>
            /\ lastCall.new_vel[1] = lastCall.velocity[1]
            /\ lastCall.new_vel[2] =
                lastCall.velocity[2] - (args.gravity * VU) \div StepsPerSecond
        /\ free =>
            /\ position[1] = args.initial_position[1] + nCalls * V0[1]
            /\ position[2] = args.initial_position[2] + nCalls * V0[2]
                    - args.gravity * ((nCalls * (nCalls - 1)) \div 2)
            /\ position[2] <= args.initial_position[2] + nCalls * V0[2]

C10_Witness ==
    /\ Running
    /\ free
    /\ nCalls >= 3
    /\ args.gravity > 0
    /\ lastCall.new_vel[2] < lastCall.velocity[2]
    /\ position[2] < args.initial_position[2] + nCalls * V0[2]

=============================================================================
